---- MODULE Spec2Model ----
(***************************************************************************)
(* A model of radish, a user-space IPv4 stack: the Internet checksum, the  *)
(* IPv4 packet view, the packet builder, the fragment iterator, the        *)
(* RFC 815 reassembler with its expiry timer, the option iterator, and     *)
(* Interface::receive and Interface::send over the tun device.             *)
(* Packets are byte sequences (1-based here, 0-based in the source).       *)
(***************************************************************************)
EXTENDS Integers, Sequences, FiniteSets, TLC

VARIABLES
    build,           \* "debug" | "release": the build profile (overflow checks, debug_assert)
    datagram_map,    \* Reassembler.datagram_map: DatagramId -> IncompleteDatagram
    task_timer,      \* Reassembler.task_timer: the schedules not cancelled, DatagramId -> seconds left
    timer_callback,  \* <<>> or <<c>>: the expiry closure the timer thread has started to run
    received,        \* the last call of Interface::receive: the bytes read and the result
    hist,            \* per context: largest TTL inserted, seconds since the last insert, MF=0 seen
    panicked,        \* a panic unwound while the mapping lock was held
    iter,            \* FragmentIterator { buffer, cursor, mtu }
    yielded,         \* the fragments next() has returned so far
    exhausted,       \* next() has returned None
    fed,             \* indices of the fragments handed to reassemble() so far
    returned,        \* the result of the last direct call of reassemble()
    builder,         \* a PacketBuilder
    built,           \* <<>> or <<the buffer build_vec returned>>
    device,          \* the buffers written to the tun device, in the order of the writes
    sent,            \* the last call of Interface::send: the packet, the result, the writes allowed
    option_iter,     \* OptionIterator { buffer, cursor }
    option_last,     \* the result of the last call of OptionIterator::next
    option_consumed, \* the total length of the options next() has parsed so far
    arg,             \* the argument of a function called on its own
    result           \* <<>> or <<the value the function returned>>

vars == <<build, datagram_map, task_timer, timer_callback, received, hist, panicked,
          iter, yielded, exhausted, fed, returned, builder, built,
          device, sent, option_iter, option_last, option_consumed, arg, result>>

(***************************************************************************)
(* Program constants.                                                      *)
(***************************************************************************)
VERSION == 4
MIN_HEADER_LEN == 5
DEFAULT_TLB == 15
DEFAULT_HDUB == 65535
DEFAULT_MTU == 1500

(***************************************************************************)
(* Bounds of the model.                                                    *)
(***************************************************************************)
MaxPayloadLen == 100   \* longest payload of a datagram given to the fragmenter
TickStep == 5          \* seconds that pass in one Tick
ElapsedCap == 25       \* the seconds-since-insert record stops counting here

(***************************************************************************)
(* Fixed-width arithmetic.                                                 *)
(***************************************************************************)
RECURSIVE BitAnd(_, _)
BitAnd(a, b) ==
    IF a = 0 \/ b = 0 THEN 0
    ELSE (a % 2) * (b % 2) + 2 * BitAnd(a \div 2, b \div 2)

RECURSIVE BitOr(_, _)
BitOr(a, b) ==
    IF a = 0 THEN b
    ELSE IF b = 0 THEN a
    ELSE (IF a % 2 = 1 \/ b % 2 = 1 THEN 1 ELSE 0) + 2 * BitOr(a \div 2, b \div 2)

\* u8 << n, >> n, and & with the low-bit mask 2^n - 1
Shl8(x, n) == (x * (2 ^ n)) % 256
Shr(x, n) == x \div (2 ^ n)
LowBits(x, n) == x % (2 ^ n)
\* x with its low n bits cleared: & with the mask !(2^n - 1)
HighBits(x, n) == (x \div (2 ^ n)) * (2 ^ n)
U16(x) == x % 65536
to_be_bytes(x) == <<x \div 256, x % 256>>
from_be_bytes(hi, lo) == hi * 256 + lo
Zeros(n) == [i \in 1..n |-> 0]
\* Two values whose set bits do not overlap are or-ed by adding them: in the
\* accessors and setters below a | b is written a + b where that is so.
Max(a, b) == IF a >= b THEN a ELSE b

\* `let x = e;` of the source: e is computed once and F is applied to its
\* value (a LET definition is computed again wherever it is used).
Let(e, F(_)) == CHOOSE r \in {F(x) : x \in {e}} : TRUE

(***************************************************************************)
(* checksum/mod.rs                                                         *)
(***************************************************************************)
\* The 16-bit word at range.0 = r0 (0-based): (data[r0] << 8) | data[r0 + 1]
Word(data, r0) == from_be_bytes(data[r0 + 1], data[r0 + 2])

\* n turns of the first loop of checksum(), from range.0 = r0 on.
RECURSIVE SumRun(_, _, _, _)
SumRun(data, r0, n, sum) ==
    IF n = 0 THEN sum ELSE SumRun(data, r0 + 2, n - 1, sum + Word(data, r0))

\* `runs` runs of 32 turns of the loop, from range.0 = r0 on: the first half
\* of the runs, then the second half from the sum the first half ends with.
\* The turns are taken in the loop's order; halving keeps the recursion
\* shallow on long buffers.
RECURSIVE SumSpan(_, _, _, _)
SumSpan(data, r0, runs, sum) ==
    IF runs = 1 THEN SumRun(data, r0, 32, sum)
    ELSE Let(SumSpan(data, r0, runs \div 2, sum), LAMBDA s :
             SumSpan(data, r0 + 64 * (runs \div 2), runs - runs \div 2, s))

\* The first loop of checksum() from range.0 = r0 on, then the odd last
\* byte.  While 64 bytes are left the loop is taken 32 turns at a time.
RECURSIVE SumWords(_, _, _)
SumWords(data, r0, sum) ==
    IF r0 + 63 < Len(data)
    THEN Let(SumSpan(data, r0, (Len(data) - r0) \div 64, sum), LAMBDA s :
             SumWords(data, r0 + 64 * ((Len(data) - r0) \div 64), s))
    ELSE IF r0 + 1 < Len(data) THEN SumWords(data, r0 + 2, sum + Word(data, r0))
    ELSE IF r0 < Len(data) THEN sum + data[r0 + 1] * 256
    ELSE sum

\* A variant that drops the carries instead of adding them back in.
Fold_DropsCarry(sum) == LowBits(sum, 16)

RECURSIVE Fold(_)
Fold(sum) == IF sum > 65535 THEN Fold(LowBits(sum, 16) + Shr(sum, 16)) ELSE sum

checksum(data) == Let(data, LAMBDA d : 65535 - Fold(SumWords(d, 0, 0)))

(***************************************************************************)
(* c_like_enum.rs, ipv4/packet.rs: Protocol                                *)
(***************************************************************************)
Protocol_from(value) ==
    CASE value = 1 -> [name |-> "Icmp", unknown |-> 0]
      [] value = 6 -> [name |-> "Tcp", unknown |-> 0]
      [] value = 17 -> [name |-> "Udp", unknown |-> 0]
      [] OTHER -> [name |-> "Unknown", unknown |-> value]

Protocol_into(p) ==
    CASE p.name = "Icmp" -> 1
      [] p.name = "Tcp" -> 6
      [] p.name = "Udp" -> 17
      [] OTHER -> p.unknown

(***************************************************************************)
(* ipv4/packet.rs: the read accessors of Packet<Buf>                       *)
(***************************************************************************)
version(buf) == Shr(buf[1], 4)
header_len(buf) == LowBits(buf[1], 4)
tos(buf) == buf[2]
total_len(buf) == from_be_bytes(buf[3], buf[4])
identification(buf) == from_be_bytes(buf[5], buf[6])
flags(buf) == Shr(buf[7], 5)
offset(buf) == LowBits(from_be_bytes(buf[7], buf[8]), 13)
ttl(buf) == buf[9]
protocol(buf) == Protocol_from(buf[10])
checksum_field(buf) == from_be_bytes(buf[11], buf[12])
src_addr(buf) == <<buf[13], buf[14], buf[15], buf[16]>>
dest_addr(buf) == <<buf[17], buf[18], buf[19], buf[20]>>
header_bytes_len(buf) == header_len(buf) * 4
payload(buf) == SubSeq(buf, header_bytes_len(buf) + 1, Len(buf))

\* The two flag tests are called by the reassembler and the interface; the
\* flags are {Reserved, DF, MF} with MF the lowest bit.
more_fragments(buf) == flags(buf) % 2 = 1
dont_fragment(buf) == (flags(buf) \div 2) % 2 = 1

(***************************************************************************)
(* ipv4/packet.rs: the setters                                             *)
(***************************************************************************)
set_version(buf, v) == [buf EXCEPT ![1] = LowBits(buf[1], 4) + Shl8(v, 4)]
set_header_len(buf, hl) == [buf EXCEPT ![1] = HighBits(buf[1], 4) + LowBits(hl, 4)]
set_tos(buf, t) == [buf EXCEPT ![2] = t]
set_total_len(buf, n) == [buf EXCEPT ![3] = to_be_bytes(n)[1], ![4] = to_be_bytes(n)[2]]
set_identification(buf, n) == [buf EXCEPT ![5] = to_be_bytes(n)[1], ![6] = to_be_bytes(n)[2]]
set_flags(buf, f) == [buf EXCEPT ![7] = LowBits(buf[7], 5) + Shl8(f, 5)]
\* A variant that does not mask the high byte of the offset.
set_offset_NoMask(buf, o) ==
    [buf EXCEPT ![7] = BitOr(HighBits(buf[7], 5), to_be_bytes(o)[1]),
                ![8] = to_be_bytes(o)[2]]

set_offset(buf, o) ==
    [buf EXCEPT ![7] = HighBits(buf[7], 5) + LowBits(to_be_bytes(o)[1], 5),
                ![8] = to_be_bytes(o)[2]]
set_ttl(buf, t) == [buf EXCEPT ![9] = t]
set_protocol(buf, p) == [buf EXCEPT ![10] = Protocol_into(p)]
set_checksum(buf, c) == [buf EXCEPT ![11] = to_be_bytes(c)[1], ![12] = to_be_bytes(c)[2]]
set_src_addr(buf, a) == [buf EXCEPT ![13] = a[1], ![14] = a[2], ![15] = a[3], ![16] = a[4]]
set_dest_addr(buf, a) == [buf EXCEPT ![17] = a[1], ![18] = a[2], ![19] = a[3], ![20] = a[4]]

(***************************************************************************)
(* ipv4/builder.rs                                                         *)
(***************************************************************************)
PacketBuilder_default ==
    [version |-> VERSION, header_len |-> MIN_HEADER_LEN, tos |-> 0, total_len |-> 0,
     identification |-> 0, flags |-> 0, offset |-> 0, ttl |-> 0,
     protocol |-> [name |-> "Unknown", unknown |-> 0], checksum |-> 0,
     src_addr |-> <<0, 0, 0, 0>>, dest_addr |-> <<0, 0, 0, 0>>, payload |-> <<>>]

\* The span build_vec hands to checksum(): packet.as_ref(), the whole buffer.
ChecksumSpan(buffer) == buffer

build_vec(b) ==
    LET tl == IF b.total_len = 0
              THEN U16(b.header_len * 4 + Len(b.payload))
              ELSE b.total_len
        buffer == Zeros(b.header_len * 4) \o b.payload
        p1 == set_header_len(set_version(buffer, b.version), b.header_len)
        p2 == set_identification(set_total_len(set_tos(p1, b.tos), tl), b.identification)
        p3 == set_ttl(set_offset(set_flags(p2, b.flags), b.offset), b.ttl)
        p4 == set_checksum(set_protocol(p3, b.protocol), b.checksum)
        p5 == set_dest_addr(set_src_addr(p4, b.src_addr), b.dest_addr)
    IN  Let(p5, LAMBDA packet :
            IF b.checksum = 0
            THEN set_checksum(packet, checksum(ChecksumSpan(packet)))
            ELSE packet)

(***************************************************************************)
(* ipv4/fragmentation.rs                                                   *)
(***************************************************************************)
FragmentIterator_new(buffer, m) ==
    [buffer |-> buffer, cursor |-> header_bytes_len(buffer), mtu |-> m]

fragments(buf, m) == FragmentIterator_new(SubSeq(buf, 1, total_len(buf)), m)

\* A variant that forgets the 20 bytes of the fragment's header.
IsLast_NoHeader(remaining_bytes_len, m) == remaining_bytes_len < m

\* Whether the fragment cut at the cursor is the last one.
IsLast(remaining_bytes_len, m) == remaining_bytes_len < m - MIN_HEADER_LEN * 4

\* One call of next(): item is <<>> for None, <<fragment>> for Some(fragment).
FragmentIterator_next(it) ==
    IF it.cursor >= Len(it.buffer) THEN [item |-> <<>>, it |-> it]
    ELSE
    LET min_header_bytes_len == MIN_HEADER_LEN * 4
        remaining_bytes_len == Len(it.buffer) - it.cursor
        is_last == IsLast(remaining_bytes_len, it.mtu)
        nfb == (it.mtu - min_header_bytes_len) \div 8
        payload_len == IF is_last THEN remaining_bytes_len ELSE nfb * 8
        pl == SubSeq(it.buffer, it.cursor + 1, it.cursor + payload_len)
        oflags == flags(it.buffer)
        fl == IF ~is_last THEN BitOr(oflags, 1) ELSE oflags
        real_header_bytes_len == header_len(it.buffer) * 4
        fragment_offset == offset(it.buffer) + (it.cursor - real_header_bytes_len) \div 8
        fragment_vec ==
            build_vec([PacketBuilder_default EXCEPT
                !.header_len = MIN_HEADER_LEN,
                !.tos = tos(it.buffer),
                !.total_len = U16(MIN_HEADER_LEN * 4 + payload_len),
                !.identification = identification(it.buffer),
                !.flags = fl,
                !.offset = U16(fragment_offset),
                !.ttl = ttl(it.buffer),
                !.protocol = protocol(it.buffer),
                !.src_addr = src_addr(it.buffer),
                !.dest_addr = dest_addr(it.buffer),
                !.payload = pl])
    IN  [item |-> <<fragment_vec>>, it |-> [it EXCEPT !.cursor = it.cursor + payload_len]]

\* fragments(mtu).collect()
RECURSIVE Collect(_)
Collect(it) ==
    Let(FragmentIterator_next(it), LAMBDA r :
        IF r.item = <<>> THEN <<>> ELSE r.item \o Collect(r.it))

(***************************************************************************)
(* ipv4/reassembly.rs: DatagramId, first(), last()                         *)
(***************************************************************************)
\* A u128 is kept as its 16 big-endian bytes; the shifts of datagram_id are
\* whole bytes.
U128(bytes) == Zeros(16 - Len(bytes)) \o bytes
Shl128(x, bits) == SubSeq(x, bits \div 8 + 1, 16) \o Zeros(bits \div 8)
Or128(a, b) == [i \in 1..16 |-> BitOr(a[i], b[i])]

\* A variant that does not shift the source address away from the
\* destination address.
datagram_id_AddressesOverlap(buf) ==
    Or128(Or128(Or128(Shl128(U128(to_be_bytes(identification(buf))), 72),
                      Shl128(U128(<<Protocol_into(protocol(buf))>>), 64)),
                U128(src_addr(buf))),
          U128(dest_addr(buf)))

datagram_id(buf) ==
    Or128(Or128(Or128(Shl128(U128(to_be_bytes(identification(buf))), 72),
                      Shl128(U128(<<Protocol_into(protocol(buf))>>), 64)),
                Shl128(U128(src_addr(buf)), 32)),
          U128(dest_addr(buf)))

first(buf) == U16(offset(buf) * 8)

\* first() + payload().len() as u16 - 1 leaves the u16 range.
LastOverflows(buf) ==
    LET s == first(buf) + U16(Len(payload(buf))) IN s > 65535 \/ s < 1

\* The value of last() where the arithmetic wraps.
last(buf) == U16(first(buf) + U16(Len(payload(buf))) - 1)

(***************************************************************************)
(* ipv4/reassembly.rs: IncompleteDatagram                                  *)
(***************************************************************************)
HoleDescriptor_new(f, l) == [first |-> f, last |-> l]
HoleDescriptor_default == HoleDescriptor_new(0, DEFAULT_HDUB)
ReassemblyTimer_default == [timeout |-> DEFAULT_TLB, guard |-> "None"]

IncompleteDatagram_default ==
    [reassembly_timer |-> ReassemblyTimer_default,
     holes |-> <<HoleDescriptor_default>>,
     fragments |-> <<>>,
     total_data_len |-> 0]

\* find_hole_fn
Intersects(hole, f, l) == f <= hole.last /\ l >= hole.first

\* holes.iter().position(find_hole_fn): 0 for None
HolePosition(holes, f, l) ==
    IF \E i \in 1..Len(holes) : Intersects(holes[i], f, l)
    THEN CHOOSE i \in 1..Len(holes) :
            /\ Intersects(holes[i], f, l)
            /\ \A j \in 1..(i - 1) : ~Intersects(holes[j], f, l)
    ELSE 0

\* The holes that replace a hole the fragment [f, l] falls into.
NewHoles(hole, f, l, mf) ==
    (IF f > hole.first THEN <<HoleDescriptor_new(hole.first, f - 1)>> ELSE <<>>)
    \o (IF l < hole.last /\ mf THEN <<HoleDescriptor_new(l + 1, hole.last)>> ELSE <<>>)

\* The while-let loop of insert.
RECURSIVE FillHoles(_, _, _, _)
FillHoles(holes, f, l, mf) ==
    LET position == HolePosition(holes, f, l)
    IN  IF position = 0 THEN holes
        ELSE FillHoles(SubSeq(holes, 1, position - 1)
                         \o NewHoles(holes[position], f, l, mf)
                         \o SubSeq(holes, position + 1, Len(holes)),
                       f, l, mf)

\* total_len() - header_len() * 4 + first(), in u16
TotalDataLenOverflows(fragment) ==
    \/ total_len(fragment) < header_len(fragment) * 4
    \/ total_len(fragment) - header_len(fragment) * 4 + first(fragment) > 65535

\* insert panics in a debug build where its u16 arithmetic overflows; this
\* is before it changes anything.
InsertPanics(bld, fragment) ==
    /\ bld = "debug"
    /\ \/ LastOverflows(fragment)
       \/ ~more_fragments(fragment) /\ TotalDataLenOverflows(fragment)

\* A variant that always pushes the fragment at the end.
StoreFragment_Push(frags, fragment) == Append(frags, fragment)

\* fragments.iter().position(|frag| frag.first() > fragment.first()), then
\* insert there or push.
StoreFragment(frags, fragment) ==
    IF \E i \in 1..Len(frags) : first(frags[i]) > first(fragment)
    THEN LET position == CHOOSE i \in 1..Len(frags) :
                            /\ first(frags[i]) > first(fragment)
                            /\ \A j \in 1..(i - 1) : ~(first(frags[j]) > first(fragment))
         IN  SubSeq(frags, 1, position - 1) \o <<fragment>>
               \o SubSeq(frags, position, Len(frags))
    ELSE Append(frags, fragment)

insert(ctx, fragment) ==
    LET mf == more_fragments(fragment)
        f == first(fragment)
        l == last(fragment)
        filled == HolePosition(ctx.holes, f, l) # 0
        tdl == IF ~mf
               THEN U16(total_len(fragment) - header_len(fragment) * 4 + first(fragment))
               ELSE ctx.total_data_len
    IN  [ctx EXCEPT !.total_data_len = tdl,
                    !.holes = FillHoles(ctx.holes, f, l, mf),
                    !.fragments = IF filled THEN StoreFragment(ctx.fragments, fragment)
                                  ELSE ctx.fragments]

\* The loop of complete() over the stored fragments from index i on, with
\* `end` and the payload gathered so far; ok is FALSE where it panics.
RECURSIVE Assemble(_, _, _, _, _)
Assemble(bld, frags, i, end, pl) ==
    IF i > Len(frags) THEN [ok |-> TRUE, payload |-> pl]
    ELSE
    LET fragment == frags[i]
        f == first(fragment)
        l == last(fragment)
        start == end
        e == U16(l + 1)
        a == U16(start - f)
        b == U16(e - f)
    IN  IF bld = "debug" /\ (LastOverflows(fragment) \/ f > end) THEN
            [ok |-> FALSE, payload |-> pl]
        ELSE IF l < end THEN Assemble(bld, frags, i + 1, end, pl)
        ELSE IF bld = "debug" /\ l + 1 > 65535 THEN [ok |-> FALSE, payload |-> pl]
        ELSE IF a > b \/ b > Len(payload(fragment)) THEN [ok |-> FALSE, payload |-> pl]
        ELSE Assemble(bld, frags, i + 1, e,
                      pl \o SubSeq(payload(fragment), a + 1, b))

\* The datagram complete() builds from the first stored fragment.
CompleteDatagram(ctx, pl) ==
    LET first_fragment == ctx.fragments[1]
    IN  build_vec([PacketBuilder_default EXCEPT
            !.header_len = header_len(first_fragment),
            !.tos = tos(first_fragment),
            !.total_len = U16(header_len(first_fragment) * 4 + ctx.total_data_len),
            !.identification = identification(first_fragment),
            !.flags = BitAnd(flags(first_fragment), 254),
            !.offset = 0,
            !.ttl = ttl(first_fragment),
            !.protocol = protocol(first_fragment),
            !.src_addr = src_addr(first_fragment),
            !.dest_addr = dest_addr(first_fragment),
            !.payload = pl])

\* complete(): res is "None", "Some" (with the datagram in out) or "Panic".
complete(bld, ctx) ==
    IF ctx.holes # <<>> THEN [res |-> "None", out |-> <<>>]
    ELSE
    Let(Assemble(bld, ctx.fragments, 1, 0, <<>>), LAMBDA r :
        IF ~r.ok THEN [res |-> "Panic", out |-> <<>>]
        ELSE IF bld = "debug" /\ ctx.total_data_len # Len(r.payload)
        THEN [res |-> "Panic", out |-> <<>>]
        ELSE IF ctx.fragments = <<>> THEN [res |-> "None", out |-> <<>>]
        ELSE [res |-> "Some", out |-> CompleteDatagram(ctx, r.payload)])

(***************************************************************************)
(* ipv4/reassembly.rs: Reassembler.  The state of a Reassembler is held in *)
(* a record [map, timer]: the mapping and the schedules not cancelled.     *)
(***************************************************************************)
EmptyMap == [k \in {} |-> 0]
MapPut(m, k, v) == [x \in (DOMAIN m) \cup {k} |-> IF x = k THEN v ELSE m[x]]
MapRemove(m, k) == [x \in (DOMAIN m) \ {k} |-> m[x]]

\* A variant that takes the TTL of the latest fragment as the timeout.
Timeout_Latest(current, t) == t

\* A variant that adds the TTL to the timeout instead of taking the larger.
Timeout_Sum(current, t) == current + t

\* The seconds the expiry task is scheduled at.
Timeout(current, t) == Max(current, t)

\* Dropping a context drops its Guard, which cancels its schedule.
RemoveContext(r, id) == [map |-> MapRemove(r.map, id), timer |-> MapRemove(r.timer, id)]

release(r, id) == RemoveContext(r, id)

\* What to do with a context whose datagram is complete.
Completed(r, id) == RemoveContext(r, id)

\* reassemble(): the Reassembler afterwards and the result.
reassemble(bld, r, fragment) ==
    Let(datagram_id(fragment), LAMBDA id :
    LET t == ttl(fragment)
        entry == IF id \in DOMAIN r.map THEN r.map[id] ELSE IncompleteDatagram_default
    IN  IF InsertPanics(bld, fragment) THEN
            [map |-> MapPut(r.map, id, entry), timer |-> r.timer,
             res |-> "Panic", out |-> <<>>]
        ELSE
        Let(insert(entry, fragment), LAMBDA inserted :
        Let(Timeout(inserted.reassembly_timer.timeout, t), LAMBDA timeout :
        Let([inserted EXCEPT !.reassembly_timer = [timeout |-> timeout, guard |-> "Some"]],
            LAMBDA datagram :
        Let(complete(bld, datagram), LAMBDA c :
            LET scheduled == [map |-> MapPut(r.map, id, datagram),
                              timer |-> MapPut(r.timer, id, timeout)]
            IN  IF c.res = "Some"
                THEN Completed(scheduled, id) @@ [res |-> c.res, out |-> c.out]
                ELSE scheduled @@ [res |-> c.res, out |-> c.out])))))

(***************************************************************************)
(* ipv4/packet.rs: new_checked; ipv4/interface.rs: receive                 *)
(***************************************************************************)
\* A variant that checks the total length before the header length.
new_checked_LenFirst(buf) ==
    IF Len(buf) < 1 THEN "Panic"
    ELSE IF version(buf) # VERSION THEN "InvalidVersion"
    ELSE IF Len(buf) < 4 THEN "Panic"
    ELSE IF total_len(buf) # Len(buf) THEN "InvalidTotalLen"
    ELSE IF header_len(buf) < MIN_HEADER_LEN THEN "InvalidHeaderLen"
    ELSE "Ok"

\* "Ok" or the error; "Panic" where an accessor indexes past the buffer.
new_checked(buf) ==
    IF Len(buf) < 1 THEN "Panic"
    ELSE IF version(buf) # VERSION THEN "InvalidVersion"
    ELSE IF Len(buf) < 4 THEN "Panic"
    ELSE IF header_len(buf) < MIN_HEADER_LEN THEN "InvalidHeaderLen"
    ELSE IF total_len(buf) # Len(buf) THEN "InvalidTotalLen"
    ELSE "Ok"

\* The header span receive() hands to checksum().
ReceiveChecksumSpan(buf) == SubSeq(buf, 1, header_len(buf) * 4)

\* A variant that drops the context of a packet it rejects.
receive_ReleasesRejected(bld, r, buf) ==
    LET checked == new_checked(buf)
        same == [map |-> r.map, timer |-> r.timer]
    IN  IF checked = "Panic" THEN same @@ [res |-> checked, out |-> <<>>]
        ELSE IF checked # "Ok" THEN release(r, datagram_id(buf)) @@ [res |-> checked, out |-> <<>>]
        ELSE IF header_len(buf) * 4 > Len(buf) THEN same @@ [res |-> "Panic", out |-> <<>>]
        ELSE IF checksum_field(buf) # checksum(ReceiveChecksumSpan(buf))
        THEN release(r, datagram_id(buf)) @@ [res |-> "InvalidChecksum", out |-> <<>>]
        ELSE IF offset(buf) = 0 /\ ~more_fragments(buf)
        THEN release(r, datagram_id(buf)) @@ [res |-> "Ok", out |-> buf]
        ELSE [reassemble(bld, r, buf) EXCEPT
                !.res = CASE @ = "Some" -> "Ok"
                          [] @ = "None" -> "TryAgainLater"
                          [] OTHER -> "Panic"]

\* receive() on the bytes the device read returned.
receive(bld, r, buf) ==
    LET checked == new_checked(buf)
        same == [map |-> r.map, timer |-> r.timer]
    IN  IF checked # "Ok" THEN same @@ [res |-> checked, out |-> <<>>]
        ELSE IF header_len(buf) * 4 > Len(buf) THEN same @@ [res |-> "Panic", out |-> <<>>]
        ELSE IF checksum_field(buf) # checksum(ReceiveChecksumSpan(buf))
        THEN same @@ [res |-> "InvalidChecksum", out |-> <<>>]
        ELSE IF offset(buf) = 0 /\ ~more_fragments(buf)
        THEN release(r, datagram_id(buf)) @@ [res |-> "Ok", out |-> buf]
        ELSE [reassemble(bld, r, buf) EXCEPT
                !.res = CASE @ = "Some" -> "Ok"
                          [] @ = "None" -> "TryAgainLater"
                          [] OTHER -> "Panic"]

(***************************************************************************)
(* Inputs and idle values shared by the specifications.                    *)
(***************************************************************************)
Builds == {"debug", "release"}
Udp == Protocol_from(17)
Icmp == Protocol_from(1)
AddrA == <<192, 168, 233, 233>>
AddrB == <<192, 168, 233, 234>>

\* The payload of the tests: (0..n).collect()
CountingPayload(n) == [i \in 1..n |-> (i - 1) % 256]

NoIter == [buffer |-> <<>>, cursor |-> 0, mtu |-> 0]
NoCall == [pkt |-> <<>>, res |-> "None", out |-> <<>>]

ReassemblerIdle ==
    /\ datagram_map = EmptyMap
    /\ task_timer = EmptyMap
    /\ timer_callback = <<>>
    /\ received = NoCall
    /\ hist = EmptyMap
    /\ panicked = FALSE
    /\ fed = {}
    /\ returned = NoCall

FragmenterIdle == iter = NoIter /\ yielded = <<>> /\ exhausted = FALSE
BuilderIdle == builder = PacketBuilder_default /\ built = <<>>

reassemblerVars == <<datagram_map, task_timer, timer_callback, received, hist, panicked,
                     fed, returned>>
fragmenterVars == <<iter, yielded, exhausted>>
builderVars == <<builder, built>>

NoSend == [pkt |-> <<>>, res |-> "None", n |-> 0, before |-> 0, budget |-> 0]
NoOptionIter == [buffer |-> <<>>, cursor |-> 0]
NoOption == [res |-> "NotCalled", len |-> 0]

SenderIdle == device = <<>> /\ sent = NoSend
OptionsIdle == option_iter = NoOptionIter /\ option_last = NoOption /\ option_consumed = 0
CallIdle == arg = <<>> /\ result = <<>>

senderVars == <<device, sent>>
optionVars == <<option_iter, option_last, option_consumed>>
callVars == <<arg, result>>

(***************************************************************************)
(* SpecBuild: PacketBuilder::build_vec applied to a bounded set of         *)
(* configurations.                                                         *)
(***************************************************************************)
\* Protocol::Unknown(1): the variant Unknown carrying the number of Icmp
UnknownIcmp == [name |-> "Unknown", unknown |-> 1]

BuildPayloads == {<<>>, <<0, 0, 0, 0>>, <<1>>, <<170, 187>>, CountingPayload(9)}

BuilderConfigs ==
    {[PacketBuilder_default EXCEPT
        !.header_len = hl, !.tos = t, !.identification = id, !.flags = f,
        !.offset = o, !.ttl = tt, !.protocol = pr, !.checksum = c,
        !.src_addr = AddrA, !.dest_addr = da, !.payload = pl] :
        hl \in {5, 6, 15}, t \in {0, 16}, id \in {0, 4386}, f \in {0, 2, 7}, o \in {0, 185, 8191},
        tt \in {0, 64}, pr \in {Icmp, Protocol_from(0), UnknownIcmp}, c \in {0, 4660},
        da \in {AddrB}, pl \in BuildPayloads}

InitBuild ==
    /\ build \in Builds
    /\ builder \in BuilderConfigs
    /\ built = <<>>
    /\ ReassemblerIdle
    /\ FragmenterIdle
    /\ SenderIdle
    /\ OptionsIdle
    /\ CallIdle

\* builder.build_vec()
Build ==
    /\ built = <<>>
    /\ built' = <<build_vec(builder)>>
    /\ UNCHANGED <<build, senderVars, optionVars, callVars, builder, reassemblerVars, fragmenterVars>>

NextBuild == Build

SpecBuild == InitBuild /\ [][NextBuild]_vars

\* The IHL*4 header bytes of a packet.
Header(buf) == SubSeq(buf, 1, header_bytes_len(buf))

\* The Internet checksum of the header with its checksum field zero.
HeaderChecksum(buf) == checksum(set_checksum(Header(buf), 0))

(***************************************************************************)
(* SpecFrag: one FragmentIterator run to exhaustion over a datagram made   *)
(* by the builder.                                                         *)
(***************************************************************************)
FragMtus == {68, 70, 76}

FragOrigins ==
    {build_vec([PacketBuilder_default EXCEPT
        !.header_len = hl, !.identification = 4097, !.flags = f, !.offset = o,
        !.ttl = 64, !.protocol = Udp, !.src_addr = AddrA, !.dest_addr = AddrB,
        !.payload = CountingPayload(n)]) :
        hl \in {5, 6}, f \in {0, 1, 2}, o \in {0, 3, 8191}, n \in 0..MaxPayloadLen}

InitFrag ==
    /\ build \in Builds
    /\ iter \in {fragments(d, m) : d \in FragOrigins, m \in FragMtus}
    /\ yielded = <<>>
    /\ exhausted = FALSE
    /\ ReassemblerIdle
    /\ BuilderIdle
    /\ SenderIdle
    /\ OptionsIdle
    /\ CallIdle

\* iterator.next()
NextFragment ==
    /\ ~exhausted
    /\ LET r == FragmentIterator_next(iter)
       IN  /\ iter' = r.it
           /\ yielded' = yielded \o r.item
           /\ exhausted' = (r.item = <<>>)
    /\ UNCHANGED <<build, senderVars, optionVars, callVars, reassemblerVars, builderVars>>

NextFrag == NextFragment

SpecFrag == InitFrag /\ [][NextFrag]_vars

RECURSIVE ConcatPayloads(_)
ConcatPayloads(frags) ==
    IF frags = <<>> THEN <<>> ELSE payload(Head(frags)) \o ConcatPayloads(Tail(frags))

(***************************************************************************)
(* Spec: an Interface whose receive() is called on the datagrams the tun   *)
(* device delivers, the timer thread of the Reassembler, and time.         *)
(* SpecRecv: the Interface alone on a wider set of datagrams, all calls    *)
(* made before any reassembly timeout is due.                              *)
(***************************************************************************)
\* A packet as the builder makes it.
Datagram(idn, off, fl, t, pl) ==
    build_vec([PacketBuilder_default EXCEPT
        !.identification = idn, !.offset = off, !.flags = fl, !.ttl = t,
        !.protocol = Udp, !.src_addr = AddrA, !.dest_addr = AddrB, !.payload = pl])

\* The packet with the header checksum a sender computes: over the header,
\* the checksum field zero while computing.
Sent(buf) == set_checksum(buf, HeaderChecksum(buf))

\* The packet with the one checksum value c for which the checksum of the
\* header with c stored in it is c again.
FixedPointChecksum(buf) ==
    LET s == Fold(SumWords(set_checksum(Header(buf), 0), 0, 0))
    IN  IF s % 2 = 1 THEN (65535 - s) \div 2 ELSE (131070 - s) \div 2
Passing(buf) == set_checksum(buf, FixedPointChecksum(buf))

Octets(a, b) == [i \in 1..(b - a + 1) |-> a + i - 1]

FragA0 == Passing(Datagram(4097, 0, 1, 20, Octets(0, 7)))
FragA1 == Passing(Datagram(4097, 1, 0, 5, Octets(8, 15)))
FragA3 == Passing(Datagram(4097, 3, 1, 5, Octets(24, 31)))
FragA4 == Passing(Datagram(4097, 4, 0, 20, Octets(32, 39)))
EmptyA == Passing(Datagram(4097, 0, 1, 5, <<>>))
WholeA == Passing(Datagram(4097, 0, 0, 20, Octets(0, 7)))
FragB0 == Passing(Datagram(4098, 0, 1, 5, Octets(0, 7)))
SentWholeA == Sent(Datagram(4097, 0, 0, 20, Octets(0, 7)))
SentFragA1 == Sent(Datagram(4097, 1, 0, 5, Octets(8, 15)))
CorruptA == set_checksum(FragA0, U16(checksum_field(FragA0) + 1))
\* FragA1 with a field new_checked refuses
BadVersionA == set_version(FragA1, 6)
BadHeaderLenA == set_header_len(FragA1, 4)
BadTotalLenA == set_total_len(FragA1, Len(FragA1) + 1)

\* What the device's read() returns in SpecRecv.
DevicePackets ==
    {FragA0, FragA1, FragA3, FragA4, EmptyA, WholeA, FragB0,
     SentWholeA, SentFragA1, CorruptA, BadVersionA, BadHeaderLenA, BadTotalLenA}

\* What the device's read() returns in Spec, where time passes.
TimedPackets == {FragA0, FragA1, WholeA, FragB0}

Reassembler == [map |-> datagram_map, timer |-> task_timer]

\* The record of largest TTL, seconds since the last insert and whether a
\* fragment with MF=0 was handed to insert(), after a call
\* of receive() that left the Reassembler as x.
HistAfter(x, buf, reached) ==
    [id \in DOMAIN x.map |->
        IF reached /\ id = datagram_id(buf)
        THEN [max_ttl |-> IF id \in DOMAIN hist
                          THEN Max(hist[id].max_ttl, ttl(buf)) ELSE ttl(buf),
              elapsed |-> 0,
              last_seen |-> ~more_fragments(buf) \/ (id \in DOMAIN hist /\ hist[id].last_seen)]
        ELSE IF id \in DOMAIN hist THEN hist[id]
        ELSE [max_ttl |-> 0, elapsed |-> 0, last_seen |-> FALSE]]

\* Whether receive() hands the bytes to reassemble().
ReachesReassemble(buf) ==
    /\ new_checked(buf) = "Ok"
    /\ header_len(buf) * 4 <= Len(buf)
    /\ checksum_field(buf) = checksum(ReceiveChecksumSpan(buf))
    /\ ~(offset(buf) = 0 /\ ~more_fragments(buf))

\* The closure waiting for the lock belongs to a context that is gone once
\* that context is removed by completion or release.
Orphaned(cb, before, after) ==
    [i \in DOMAIN cb |->
        [cb[i] EXCEPT !.orphan = @ \/ (cb[i].datagram_id \in (DOMAIN before) \ (DOMAIN after))]]

Init ==
    /\ build \in Builds
    /\ datagram_map = EmptyMap
    /\ task_timer = EmptyMap
    /\ timer_callback = <<>>
    /\ received = NoCall
    /\ hist = EmptyMap
    /\ panicked = FALSE
    /\ fed = {}
    /\ returned = NoCall
    /\ FragmenterIdle
    /\ BuilderIdle
    /\ SenderIdle
    /\ OptionsIdle
    /\ CallIdle

\* interface.receive(), the device delivering buf
Receive(buf) ==
    /\ ~panicked
    /\ \E x \in {receive(build, Reassembler, buf)} :
           /\ datagram_map' = x.map
           /\ task_timer' = x.timer
           /\ received' = [pkt |-> buf, res |-> x.res, out |-> x.out]
           /\ panicked' = (x.res = "Panic")
           /\ hist' = HistAfter(x, buf, ReachesReassemble(buf) /\ x.res # "Panic")
           /\ timer_callback' = Orphaned(timer_callback, datagram_map, x.map)
    /\ UNCHANGED <<build, senderVars, optionVars, callVars, fed, returned, fragmenterVars, builderVars>>

\* TickStep seconds pass.
Tick ==
    /\ ~panicked
    /\ task_timer' = [id \in DOMAIN task_timer |-> Max(0, task_timer[id] - TickStep)]
    /\ hist' = [id \in DOMAIN hist |->
                   [hist[id] EXCEPT !.elapsed =
                        IF @ + TickStep > ElapsedCap THEN ElapsedCap ELSE @ + TickStep]]
    /\ UNCHANGED <<build, senderVars, optionVars, callVars, datagram_map, timer_callback, received, panicked, fed,
                   returned, fragmenterVars, builderVars>>

\* The timer thread pops a schedule that is due and not cancelled, and starts
\* its closure, which goes on to wait for the mapping lock.
TimerFire(id) ==
    /\ ~panicked
    /\ timer_callback = <<>>
    /\ id \in DOMAIN task_timer
    /\ task_timer[id] = 0
    /\ timer_callback' = <<[datagram_id |-> id, orphan |-> FALSE]>>
    /\ task_timer' = MapRemove(task_timer, id)
    /\ UNCHANGED <<build, senderVars, optionVars, callVars, datagram_map, received, hist, panicked, fed, returned,
                   fragmenterVars, builderVars>>

\* The closure takes the lock: cloned_datagram_map.lock().unwrap().remove(&datagram_id)
ExpiryClosure(r, id) == RemoveContext(r, id)

TimerRun ==
    /\ ~panicked
    /\ timer_callback # <<>>
    /\ LET x == ExpiryClosure(Reassembler, timer_callback[1].datagram_id)
       IN  /\ datagram_map' = x.map
           /\ task_timer' = x.timer
           /\ hist' = [id \in DOMAIN x.map |-> hist[id]]
    /\ timer_callback' = <<>>
    /\ UNCHANGED <<build, senderVars, optionVars, callVars, received, panicked, fed, returned, fragmenterVars, builderVars>>

Next ==
    \/ \E buf \in TimedPackets : Receive(buf)
    \/ Tick
    \/ \E id \in DOMAIN task_timer : TimerFire(id)
    \/ TimerRun

Spec == Init /\ [][Next]_vars

NextRecv == \E buf \in DevicePackets : Receive(buf)

SpecRecv == Init /\ [][NextRecv]_vars

(***************************************************************************)
(* SpecReasm: the fragments of one datagram, as fragments() yields them,   *)
(* handed to reassemble() in any order, any of them more than once, all    *)
(* before the reassembly timeout is due.                                   *)
(***************************************************************************)
ReasmOrigins ==
    {d \in FragOrigins : ~dont_fragment(d) /\ ~more_fragments(d) /\ offset(d) = 0}

InitReasm ==
    /\ build \in Builds
    /\ iter \in {fragments(d, m) : d \in ReasmOrigins, m \in FragMtus}
    /\ yielded = Collect(iter)
    /\ exhausted = TRUE
    /\ ReassemblerIdle
    /\ BuilderIdle
    /\ SenderIdle
    /\ OptionsIdle
    /\ CallIdle

\* reassembler.reassemble(yielded[i]), until a call returns the datagram
Feed(i) ==
    /\ returned.res \notin {"Some", "Panic"}
    /\ \E x \in {reassemble(build, Reassembler, yielded[i])} :
           /\ datagram_map' = x.map
           /\ task_timer' = x.timer
           /\ returned' = [pkt |-> yielded[i], res |-> x.res, out |-> x.out]
           /\ panicked' = (x.res = "Panic")
    /\ fed' = fed \cup {i}
    /\ UNCHANGED <<build, senderVars, optionVars, callVars, timer_callback, received, hist, fragmenterVars, builderVars>>

NextReasm == \E i \in 1..Len(yielded) : Feed(i)

SpecReasm == InitReasm /\ [][NextReasm]_vars

(***************************************************************************)
(* Claims about the fragmenter (SpecFrag) and the builder (SpecBuild).     *)
(***************************************************************************)

\* C1: the fragments of a datagram with DF=0 handed to reassemble() in any
\* order, duplicates allowed: the call that hands over the last of them
\* returns a datagram with the same identity and payload, and no call before
\* it returns one.
C1_ReassemblyInvertsFragmentation ==
    fed # {} =>
        IF fed = 1..Len(yielded)
        THEN /\ returned.res = "Some"
             /\ payload(returned.out) = payload(iter.buffer)
             /\ datagram_id(returned.out) = datagram_id(iter.buffer)
        ELSE returned.res = "None"

\* C2: once the iterator of a datagram with MF=0 is exhausted and has yielded
\* at least one fragment, every fragment but the last has MF=1 and the last
\* carries the datagram's own flags (MF=0, DF preserved).
C2_LastFragmentClearsMF ==
    (exhausted /\ yielded # <<>> /\ ~more_fragments(iter.buffer)) =>
        /\ \A k \in 1..(Len(yielded) - 1) : more_fragments(yielded[k])
        /\ flags(yielded[Len(yielded)]) = flags(iter.buffer)

\* C3: for a datagram with DF=0 the iterator yields finitely many fragments
\* (never more than there are payload bytes), each at most MTU bytes long with
\* a 20-byte header, and the payloads yielded so far are the datagram's
\* payload up to the cursor: all of it once the iterator is exhausted.
C3_FragmentsPreservePayload ==
    ~dont_fragment(iter.buffer) =>
        /\ \A k \in 1..Len(yielded) :
              /\ Len(yielded[k]) <= iter.mtu
              /\ Len(yielded[k]) = 20 + Len(payload(yielded[k]))
              /\ total_len(yielded[k]) = Len(yielded[k])
        /\ Len(yielded) <= Len(payload(iter.buffer))
        /\ ConcatPayloads(yielded) =
              SubSeq(payload(iter.buffer), 1, iter.cursor - header_bytes_len(iter.buffer))
        /\ exhausted => ConcatPayloads(yielded) = payload(iter.buffer)

\* A datagram with DF=0 has been cut into three fragments and the iterator is
\* exhausted.
C3_Witness ==
    /\ exhausted
    /\ ~dont_fragment(iter.buffer)
    /\ Len(yielded) = 3
    /\ iter.mtu = 68

\* C5: with the builder's checksum left at 0, build_vec writes the Internet
\* checksum of the IHL*4 header bytes alone (checksum field zero), whatever
\* the payload is.
C5_BuildHeaderChecksum ==
    (built # <<>> /\ builder.checksum = 0) =>
        checksum_field(built[1]) = HeaderChecksum(built[1])

(***************************************************************************)
(* Claims about Interface.receive and the Reassembler (SpecRecv, Spec).    *)
(***************************************************************************)

\* C4: receive() of a packet that passes new_checked (with its header inside
\* the buffer) fails with InvalidChecksum exactly when the stored header
\* checksum differs from the Internet checksum of the IHL*4 header bytes
\* taken with the checksum field zero; otherwise the packet is accepted.
C4_ReceiveVerifiesHeaderChecksum ==
    LET p == received.pkt
    IN  (p # <<>> /\ new_checked(p) = "Ok" /\ header_len(p) * 4 <= Len(p)) =>
            ((received.res = "InvalidChecksum") <=> (checksum_field(p) # HeaderChecksum(p)))

\* The octets of the original datagram a stored fragment carries.
CoveredBy(fragment, o) ==
    first(fragment) <= o /\ o < first(fragment) + Len(payload(fragment))

\* C6: in every context of the mapping the holes are well-formed and disjoint
\* ranges inside [0, 65535], and an octet below the known end of the datagram
\* lies in some hole exactly when no accepted fragment covers it.
C6_HolesAreTheUnfilledOctets ==
    \A id \in DOMAIN datagram_map :
        LET ctx == datagram_map[id]
        IN  /\ \A i \in 1..Len(ctx.holes) :
                  /\ 0 <= ctx.holes[i].first
                  /\ ctx.holes[i].first <= ctx.holes[i].last
                  /\ ctx.holes[i].last <= DEFAULT_HDUB
                  /\ \A j \in 1..Len(ctx.holes) :
                        i # j => ~Intersects(ctx.holes[i], ctx.holes[j].first,
                                             ctx.holes[j].last)
            /\ \A o \in 0..(ctx.total_data_len - 1) :
                  (\E i \in 1..Len(ctx.holes) :
                        ctx.holes[i].first <= o /\ o <= ctx.holes[i].last)
                  <=> ~(\E k \in 1..Len(ctx.fragments) : CoveredBy(ctx.fragments[k], o))

\* The timer thread has nothing left to do: no schedule is due and no closure
\* is waiting for the mapping.
TimerHasRun ==
    /\ timer_callback = <<>>
    /\ \A id \in DOMAIN task_timer : task_timer[id] > 0

\* C7 as the specification states it: once the largest TTL among a context's
\* fragments has elapsed since its last insert and the timer has run, the
\* context is no longer in the mapping.
C7_RemovedAfterLargestTtl ==
    TimerHasRun =>
        \A id \in DOMAIN datagram_map : hist[id].elapsed < hist[id].max_ttl

\* C7, amended: once max(15, largest TTL among its fragments) seconds have
\* elapsed since a context's last insert and the timer has run, the context
\* is no longer in the mapping.
C7_RemovedAfterTimeout ==
    TimerHasRun =>
        \A id \in DOMAIN datagram_map :
            hist[id].elapsed < Max(DEFAULT_TLB, hist[id].max_ttl)

\* The last call of receive() left a context of a single TTL-5 fragment, and
\* the timer thread has since removed it.
C7_Witness ==
    /\ received.res = "TryAgainLater"
    /\ ttl(received.pkt) < DEFAULT_TLB
    /\ datagram_id(received.pkt) \notin DOMAIN datagram_map
    /\ TimerHasRun

\* C8: after a call of receive() that reached reassemble(), the call returned
\* a datagram exactly when the context's holes were empty after the insert:
\* if it did, the id is no longer in the mapping; if it did not, the id is in
\* the mapping with holes left and an expiry task pending.
C8_ReassembleReturnsIffNoHoles ==
    LET p == received.pkt
        id == datagram_id(p)
    IN  (p # <<>> /\ ReachesReassemble(p)) =>
            IF received.res = "Ok"
            THEN id \notin DOMAIN datagram_map
            ELSE /\ id \in DOMAIN datagram_map
                 /\ datagram_map[id].holes # <<>>
                 /\ id \in DOMAIN task_timer

\* C9: an expiry closure whose context was already removed by completion or
\* release() changes nothing in the mapping when it runs: not a missing
\* entry, and not a later context created under the same id.
C9_LateExpiryTaskIsNoOp ==
    [][(timer_callback # <<>> /\ timer_callback' = <<>> /\ timer_callback[1].orphan)
          => datagram_map' = datagram_map]_vars

\* A packet receive() must take as a valid whole datagram.
ValidWholeDatagram(p) ==
    /\ p # <<>>
    /\ new_checked(p) = "Ok"
    /\ header_len(p) * 4 <= Len(p)
    /\ checksum_field(p) = HeaderChecksum(p)
    /\ offset(p) = 0
    /\ ~more_fragments(p)

\* C10: a call of receive() on a valid datagram with offset 0 and MF=0 returns
\* that datagram unchanged, leaves no context under its id, and leaves the
\* contexts of all other ids as they were.
C10_WholeDatagramReturnedAndReleased ==
    [][(received' # received /\ ValidWholeDatagram(received'.pkt)) =>
          /\ received'.res = "Ok"
          /\ received'.out = received'.pkt
          /\ datagram_id(received'.pkt) \notin DOMAIN datagram_map'
          /\ \A id \in (DOMAIN datagram_map) \ {datagram_id(received'.pkt)} :
                id \in DOMAIN datagram_map' /\ datagram_map'[id] = datagram_map[id]]_vars

(***************************************************************************)
(* net_device/tun.rs and ipv4/interface.rs: the device and Interface::send *)
(***************************************************************************)
MaxWrites == 3   \* most writes of one call of send() the device takes before one fails

\* TunDevice::write: the buffer goes out as one frame and its length is
\* returned, or write(2) fails and nothing goes out.
write(written, buf, fails) ==
    IF fails THEN [written |-> written, res |-> "IoError", n |-> 0]
    ELSE [written |-> Append(written, buf), res |-> "Ok", n |-> Len(buf)]

\* A variant that goes on with the next fragment after a write has failed.
RECURSIVE WriteFragments_SkipsFailedWrite(_, _, _)
WriteFragments_SkipsFailedWrite(written, it, budget) ==
    Let(FragmentIterator_next(it), LAMBDA r :
        IF r.item = <<>> THEN [written |-> written, res |-> "Ok"]
        ELSE Let(write(written, r.item[1], budget = 0), LAMBDA w :
                 IF w.res # "Ok"
                 THEN [WriteFragments_SkipsFailedWrite(w.written, r.it, MaxWrites)
                          EXCEPT !.res = "IoError"]
                 ELSE WriteFragments_SkipsFailedWrite(w.written, r.it, budget - 1)))

\* for fragment in packet.fragments(DEFAULT_MTU) { device.write(fragment)? }
\* The device takes `budget` writes and fails the one after.
RECURSIVE WriteFragments(_, _, _)
WriteFragments(written, it, budget) ==
    Let(FragmentIterator_next(it), LAMBDA r :
        IF r.item = <<>> THEN [written |-> written, res |-> "Ok"]
        ELSE Let(write(written, r.item[1], budget = 0), LAMBDA w :
                 IF w.res # "Ok" THEN [written |-> w.written, res |-> w.res]
                 ELSE WriteFragments(w.written, r.it, budget - 1)))

\* A variant that fragments a packet whatever its DF bit.
send_FragmentsDespiteDF(written, packet, budget) ==
    IF Len(packet) > DEFAULT_MTU
    THEN Let(WriteFragments(written, fragments(packet, DEFAULT_MTU), budget), LAMBDA w :
             [written |-> w.written, res |-> w.res,
              n |-> IF w.res = "Ok" THEN Len(packet) ELSE 0])
    ELSE write(written, packet, budget = 0)

\* Interface::send
send(written, packet, budget) ==
    IF Len(packet) > DEFAULT_MTU
    THEN IF dont_fragment(packet)
         THEN [written |-> written, res |-> "NonFragmentablePacket", n |-> 0]
         ELSE Let(WriteFragments(written, fragments(packet, DEFAULT_MTU), budget), LAMBDA w :
                  [written |-> w.written, res |-> w.res,
                   n |-> IF w.res = "Ok" THEN Len(packet) ELSE 0])
    ELSE write(written, packet, budget = 0)

(***************************************************************************)
(* SpecSend: one call of Interface::send on a device that has or has not   *)
(* taken a frame before, and that fails after 0..MaxWrites writes.         *)
(***************************************************************************)
SendDatagram(hl, fl, n) ==
    build_vec([PacketBuilder_default EXCEPT
        !.header_len = hl, !.identification = 4097, !.flags = fl, !.ttl = 64,
        !.protocol = Udp, !.src_addr = AddrA, !.dest_addr = AddrB,
        !.payload = CountingPayload(n)])

\* Packets below, at and above the MTU, with DF clear and set.
SendPackets ==
    {SendDatagram(5, 0, 8),
     SendDatagram(5, 2, DEFAULT_MTU - 20),
     SendDatagram(5, 0, DEFAULT_MTU - 19),
     SendDatagram(5, 2, DEFAULT_MTU - 19),
     SendDatagram(6, 0, DEFAULT_MTU + 100),
     SendDatagram(5, 0, 2 * (DEFAULT_MTU - 20)),
     SendDatagram(5, 0, 2 * DEFAULT_MTU + 500),
     SendDatagram(5, 2, 2 * DEFAULT_MTU + 500)}

InitSend ==
    /\ build \in Builds
    /\ device \in {<<>>, <<SendDatagram(5, 0, 8)>>}
    /\ sent = NoSend
    /\ OptionsIdle
    /\ CallIdle
    /\ ReassemblerIdle
    /\ FragmenterIdle
    /\ BuilderIdle

\* interface.send(packet), the device failing its write number budget + 1
Send(packet, budget) ==
    /\ sent = NoSend
    /\ \E x \in {send(device, packet, budget)} :
           /\ device' = x.written
           /\ sent' = [pkt |-> packet, res |-> x.res, n |-> x.n,
                       before |-> Len(device), budget |-> budget]
    /\ UNCHANGED <<build, optionVars, callVars, reassemblerVars, fragmenterVars, builderVars>>

NextSend == \E packet \in SendPackets, budget \in 0..MaxWrites : Send(packet, budget)

SpecSend == InitSend /\ [][NextSend]_vars

\* The frames the last call of send() wrote.
FramesSent == SubSeq(device, sent.before + 1, Len(device))

\* C11: a call of send() on a packet longer than the MTU with DF set returns
\* NonFragmentablePacket and writes nothing to the device.
C11_OversizedDFPacketRefused ==
    (sent # NoSend /\ Len(sent.pkt) > DEFAULT_MTU /\ dont_fragment(sent.pkt)) =>
        /\ sent.res = "NonFragmentablePacket"
        /\ Len(device) = sent.before

C11_Witness ==
    /\ sent # NoSend
    /\ Len(sent.pkt) > DEFAULT_MTU
    /\ dont_fragment(sent.pkt)
    /\ sent.budget > 0
    /\ sent.before > 0

\* C12: a call of send() on a packet longer than the MTU with DF clear writes
\* the fragments the fragmenter yields, one per write and in that order, by
\* ascending offset; it returns the packet's length when every write
\* succeeds; when a write fails it returns the error, having written the
\* fragments before the failing one and none after it.
C12_FragmentsWrittenInOrder ==
    (sent # NoSend /\ Len(sent.pkt) > DEFAULT_MTU /\ ~dont_fragment(sent.pkt)) =>
        LET frags == Collect(fragments(sent.pkt, DEFAULT_MTU))
        IN  /\ \A i, j \in 1..Len(FramesSent) : i < j => offset(FramesSent[i]) < offset(FramesSent[j])
            /\ IF sent.budget >= Len(frags)
               THEN sent.res = "Ok" /\ sent.n = Len(sent.pkt) /\ FramesSent = frags
               ELSE sent.res = "IoError" /\ FramesSent = SubSeq(frags, 1, sent.budget)

C12_Witness ==
    /\ sent # NoSend
    /\ Len(sent.pkt) > DEFAULT_MTU
    /\ ~dont_fragment(sent.pkt)
    /\ sent.res = "IoError"
    /\ Len(FramesSent) = 2
    /\ sent.before > 0

\* The errors with which receive() rejects a packet before the reassembler.
Rejections == {"InvalidVersion", "InvalidHeaderLen", "InvalidTotalLen", "InvalidChecksum"}

\* C13: a call of receive() that fails with InvalidVersion, InvalidHeaderLen,
\* InvalidTotalLen or InvalidChecksum leaves the reassembler as it was: the
\* mapping with every context in it, and the expiry tasks scheduled.
C13_RejectedPacketLeavesReassembler ==
    [][received'.res \in Rejections =>
          /\ datagram_map' = datagram_map
          /\ task_timer' = task_timer]_vars

C13_Witness ==
    /\ received.res = "InvalidTotalLen"
    /\ datagram_id(received.pkt) \in DOMAIN datagram_map
    /\ datagram_id(FragB0) \in DOMAIN datagram_map

(***************************************************************************)
(* SpecChecked: Packet::new_checked applied to buffers of 20 bytes or more *)
(* whose version, IHL and total length are right or wrong in every         *)
(* combination.                                                            *)
(***************************************************************************)
\* A buffer of n bytes with the given version, IHL and total length.
CheckedBuffer(v, hl, tl, n) ==
    set_total_len(set_header_len(set_version(CountingPayload(n), v), hl), tl)

CheckedBuffers ==
    {CheckedBuffer(v, hl, tl, n) :
        v \in {0, 4, 5, 6, 15}, hl \in {0, 4, 5, 6, 15},
        tl \in {0, 19, 20, 21, 24, 276, 5140}, n \in {20, 21, 24}}

InitChecked ==
    /\ build \in Builds
    /\ arg \in CheckedBuffers
    /\ result = <<>>
    /\ SenderIdle
    /\ OptionsIdle
    /\ ReassemblerIdle
    /\ FragmenterIdle
    /\ BuilderIdle

\* Packet::new_checked(arg)
NewChecked ==
    /\ result = <<>>
    /\ result' = <<new_checked(arg)>>
    /\ UNCHANGED <<build, arg, senderVars, optionVars, reassemblerVars, fragmenterVars, builderVars>>

NextChecked == NewChecked

SpecChecked == InitChecked /\ [][NextChecked]_vars

\* C14: on a buffer of at least 20 bytes new_checked returns Ok exactly when
\* the version nibble is 4, the IHL nibble is at least 5 and the total length
\* field equals the buffer's length; otherwise InvalidVersion when the
\* version is not 4, else InvalidHeaderLen when IHL < 5, else InvalidTotalLen.
C14_NewCheckedVerdict ==
    (result # <<>> /\ Len(arg) >= 20) =>
        LET v == arg[1] \div 16
            ihl == arg[1] % 16
            tl == arg[3] * 256 + arg[4]
        IN  result[1] = IF v # 4 THEN "InvalidVersion"
                        ELSE IF ihl < 5 THEN "InvalidHeaderLen"
                        ELSE IF tl # Len(arg) THEN "InvalidTotalLen"
                        ELSE "Ok"

C14_Witness ==
    /\ result = <<"InvalidHeaderLen">>
    /\ Len(arg) = 24
    /\ total_len(arg) # Len(arg)

\* C15: the view build() returns gives back, through its getters, the tos,
\* identification, flags, offset, ttl, protocol, addresses and payload the
\* builder was configured with (version 4, IHL 5..15, flags 0..7, offset
\* 0..8191, total_len left 0), and its total_len is IHL*4 + payload length.
C15_BuilderRoundTrip ==
    (built # <<>> /\ builder.version = VERSION /\ builder.header_len \in 5..15
        /\ builder.flags \in 0..7 /\ builder.offset \in 0..8191 /\ builder.total_len = 0) =>
        /\ version(built[1]) = builder.version
        /\ header_len(built[1]) = builder.header_len
        /\ tos(built[1]) = builder.tos
        /\ identification(built[1]) = builder.identification
        /\ flags(built[1]) = builder.flags
        /\ offset(built[1]) = builder.offset
        /\ ttl(built[1]) = builder.ttl
        /\ protocol(built[1]) = builder.protocol
        /\ src_addr(built[1]) = builder.src_addr
        /\ dest_addr(built[1]) = builder.dest_addr
        /\ payload(built[1]) = builder.payload
        /\ total_len(built[1]) = builder.header_len * 4 + Len(builder.payload)

(***************************************************************************)
(* ipv4/packet.rs: the options of the header                               *)
(***************************************************************************)
OptionType_class(t) == Shr(BitAnd(t, 96), 5)
OptionType_number(t) == BitAnd(t, 31)

\* Option::kind, of an option whose first byte is t
OptionKind(t) ==
    LET class == OptionType_class(t)
        number == OptionType_number(t)
    IN  CASE class = 0 /\ number = 0 -> "End"
          [] class = 0 /\ number = 1 -> "NoOperation"
          [] class = 0 /\ number = 2 -> "Security"
          [] class = 0 /\ number = 3 -> "LooseSourceRouting"
          [] class = 0 /\ number = 7 -> "RecordRoute"
          [] class = 0 /\ number = 8 -> "StreamId"
          [] class = 0 /\ number = 9 -> "StrictSourceRouting"
          [] class = 2 /\ number = 4 -> "Timestamp"
          [] OTHER -> "Unknown"

OneByteKinds == {"End", "NoOperation", "Unknown"}

\* Option::new_checked: the option cut from the front of the buffer, or the
\* error.
Option_new_checked(buffer) ==
    LET buf_len == Len(buffer)
        bad == [res |-> "InvalidOptionLen", option |-> <<>>]
    IN  IF buf_len < 1 THEN bad
        ELSE LET option_kind == OptionKind(buffer[1])
             IN  IF buf_len = 1
                 THEN IF option_kind \in OneByteKinds
                      THEN [res |-> "Ok", option |-> buffer]
                      ELSE bad
                 ELSE LET consumed_len ==
                              CASE option_kind \in OneByteKinds -> 1
                                [] option_kind = "Security" -> 11
                                [] option_kind = "StreamId" -> 4
                                [] OTHER -> buffer[2]
                      IN  IF buf_len < consumed_len THEN bad
                          ELSE [res |-> "Ok", option |-> SubSeq(buffer, 1, consumed_len)]

OptionIterator_new(buffer) == [buffer |-> buffer, cursor |-> 0]

\* Packet::options
options(buf) == OptionIterator_new(SubSeq(buf, 21, header_bytes_len(buf)))

\* OptionIterator::next: the iterator after the call, what the call returned
\* ("None", "Ok", "InvalidOptionLen", or "Panic" where kind() reads the first
\* byte of an empty option) and the length of the option it cut.
OptionIterator_next(it) ==
    IF it.cursor >= Len(it.buffer) THEN [it |-> it, res |-> "None", len |-> 0]
    ELSE Let(Option_new_checked(SubSeq(it.buffer, it.cursor + 1, Len(it.buffer))), LAMBDA r :
             IF r.res = "Ok"
             THEN LET moved == [it EXCEPT !.cursor = @ + Len(r.option)]
                  IN  IF r.option = <<>>
                      THEN [it |-> moved, res |-> "Panic", len |-> 0]
                      ELSE IF OptionKind(r.option[1]) = "End"
                      THEN [it |-> moved, res |-> "None", len |-> Len(r.option)]
                      ELSE [it |-> moved, res |-> "Ok", len |-> Len(r.option)]
             ELSE [it |-> it, res |-> r.res, len |-> 0])

(***************************************************************************)
(* SpecOptions: OptionIterator::next called again and again on the options *)
(* of a header.                                                            *)
(***************************************************************************)
MaxOptions == 3   \* most options, well-formed or not, put in one header

\* Options as they are laid out in a header: well-formed ones, then ones
\* with a length of 0, of 1, beyond the area, and a cut-off Security.
OptionPieces ==
    {<<0>>, <<1>>, <<30>>, <<136, 4, 0, 1>>, <<7, 7, 4, 1, 2, 3, 4>>, <<68, 4, 5, 0>>,
     <<130, 11, 0, 0, 0, 0, 0, 0, 0, 0, 0>>, <<131, 0>>, <<7, 1>>, <<137, 40>>, <<130>>}

RECURSIVE OptionAreasOf(_)
OptionAreasOf(n) ==
    IF n = 0 THEN {<<>>}
    ELSE LET shorter == OptionAreasOf(n - 1)
         IN  shorter \cup {a \o p : a \in shorter, p \in OptionPieces}

\* The area padded with End options to a whole number of 32-bit words.
Padded(area) == area \o Zeros((4 - (Len(area) % 4)) % 4)

\* A header with the options area given.
HeaderWithOptions(area) ==
    SubSeq(build_vec([PacketBuilder_default EXCEPT
        !.header_len = MIN_HEADER_LEN + Len(area) \div 4, !.ttl = 64, !.protocol = Icmp,
        !.src_addr = AddrA, !.dest_addr = AddrB]), 1, 20) \o area

OptionHeaders ==
    {HeaderWithOptions(Padded(a)) : a \in {b \in OptionAreasOf(MaxOptions) : Len(b) <= 40}}

InitOptions ==
    /\ build \in Builds
    /\ option_iter \in {options(h) : h \in OptionHeaders}
    /\ option_last = NoOption
    /\ option_consumed = 0
    /\ SenderIdle
    /\ CallIdle
    /\ ReassemblerIdle
    /\ FragmenterIdle
    /\ BuilderIdle

\* iterator.next(); a panic ends the caller's loop
NextOption ==
    /\ option_last.res # "Panic"
    /\ \E r \in {OptionIterator_next(option_iter)} :
           /\ option_iter' = r.it
           /\ option_last' = [res |-> r.res, len |-> r.len]
           /\ option_consumed' = option_consumed + r.len
    /\ UNCHANGED <<build, senderVars, callVars, reassemblerVars, fragmenterVars, builderVars>>

NextOptions == NextOption

SpecOptions == InitOptions /\ [][NextOptions]_vars

\* The caller goes on calling next() as long as a call changes anything.
SpecOptionsLive == SpecOptions /\ WF_vars(NextOption)

\* C16: the caller's calls of next() reach None, also after an
\* InvalidOptionLen and on a variable-length option whose length byte is 0,
\* and the lengths of the options cut never sum to more than the options
\* area, IHL*4 - 20 bytes.
C16_OptionIterationTerminates ==
    /\ <>(option_last.res = "None")
    /\ [](option_consumed <= Len(option_iter.buffer))

\* The lengths of the options cut sum to at most the options area.
OptionsWithinArea == option_consumed <= Len(option_iter.buffer)

\* C17: after every insert a context's stored timeout is the largest of
\* DEFAULT_TLB = 15 and the TTLs of the fragments inserted into it so far, and
\* no call lowers the timeout of a context that stays in the mapping.
C17_TimeoutIsLargestTtl ==
    [][\A id \in DOMAIN datagram_map' :
          /\ datagram_map'[id].reassembly_timer.timeout = Max(DEFAULT_TLB, hist'[id].max_ttl)
          /\ id \in DOMAIN datagram_map =>
                datagram_map'[id].reassembly_timer.timeout >=
                    datagram_map[id].reassembly_timer.timeout]_vars

\* A context took a fragment of TTL 5 and then one of TTL 20, and is still
\* being reassembled with the timeout 20.
C17_Witness ==
    /\ received.res = "TryAgainLater"
    /\ ttl(received.pkt) > DEFAULT_TLB
    /\ datagram_id(received.pkt) \in DOMAIN datagram_map
    /\ Len(datagram_map[datagram_id(received.pkt)].fragments) >= 2
    /\ \E i \in DOMAIN datagram_map[datagram_id(received.pkt)].fragments :
           ttl(datagram_map[datagram_id(received.pkt)].fragments[i]) < DEFAULT_TLB
    /\ datagram_map[datagram_id(received.pkt)].reassembly_timer.timeout = ttl(received.pkt)

(***************************************************************************)
(* SpecChecksum: checksum() applied to byte sequences of even and odd      *)
(* length.                                                                 *)
(***************************************************************************)
MaxDataLen == 5   \* longest sequence made of every combination of ChecksumBytes

ChecksumBytes == {0, 1, 128, 255}

RECURSIVE SeqsUpTo(_, _)
SeqsUpTo(S, n) ==
    IF n = 0 THEN {<<>>}
    ELSE LET shorter == SeqsUpTo(S, n - 1)
         IN  shorter \cup {Append(d, b) : d \in shorter, b \in S}

\* The bytes of tests::checksum, whose checksum is 0x2918
TestBytes ==
    <<18, 52, 86, 120, 154, 188, 222, 240, 18, 52, 0, 0, 154, 188, 222, 240, 18, 52, 86, 120>>

ChecksumInputs ==
    SeqsUpTo(ChecksumBytes, MaxDataLen)
        \cup {TestBytes, SubSeq(TestBytes, 1, 19), [i \in 1..40 |-> 255], [i \in 1..41 |-> 255]}

InitChecksum ==
    /\ build \in Builds
    /\ arg \in ChecksumInputs
    /\ result = <<>>
    /\ SenderIdle
    /\ OptionsIdle
    /\ ReassemblerIdle
    /\ FragmenterIdle
    /\ BuilderIdle

\* checksum(arg)
Checksum ==
    /\ result = <<>>
    /\ result' = <<checksum(arg)>>
    /\ UNCHANGED <<build, arg, senderVars, optionVars, reassemblerVars, fragmenterVars, builderVars>>

NextChecksum == Checksum

SpecChecksum == InitChecksum /\ [][NextChecksum]_vars

\* The reference of RFC 1071: the 16-bit words of the data, an odd last byte
\* padded with a zero byte on the right.
RefWords(data) ==
    [k \in 1..((Len(data) + 1) \div 2) |->
        data[2 * k - 1] * 256 + (IF 2 * k <= Len(data) THEN data[2 * k] ELSE 0)]

\* One's complement addition of two 16-bit words: the carry out of bit 15 is
\* added back in at bit 0.
EndAroundAdd(a, b) == IF a + b > 65535 THEN a + b - 65535 ELSE a + b

RECURSIVE RefSum(_, _)
RefSum(words, k) == IF k = 0 THEN 0 ELSE EndAroundAdd(RefSum(words, k - 1), words[k])

RefChecksum(data) == 65535 - RefSum(RefWords(data), Len(RefWords(data)))

\* C18: checksum() returns the 16-bit complement of the end-around-carry sum
\* of the big-endian 16-bit words of its argument, an odd last byte taken as
\* the high byte of a word padded with zero.
C18_ChecksumIsInternetChecksum ==
    result # <<>> => result[1] = RefChecksum(arg)

C18_Witness ==
    /\ result # <<>>
    /\ Len(arg) = 5
    /\ arg[1] = 255 /\ arg[2] = 255 /\ arg[3] = 128 /\ arg[5] = 255

(***************************************************************************)
(* SpecId: datagram_id() applied to two packets.                           *)
(***************************************************************************)
\* Addresses that differ from AddrA in one byte, and AddrA and AddrB with
\* their halves swapped.
AddrC == <<192, 168, 233, 0>>
AddrD == <<233, 233, 192, 168>>

\* Packets that agree or differ in each of identification, protocol, source
\* and destination, and in fields that are not part of the id.
IdPackets ==
    {build_vec([PacketBuilder_default EXCEPT
        !.identification = idn, !.protocol = Protocol_from(pr), !.src_addr = sa,
        !.dest_addr = da, !.ttl = tt, !.offset = tt, !.payload = <<tt>>]) :
        idn \in {0, 1, 256, 4097}, pr \in {0, 1, 17}, sa \in {AddrA, AddrB, AddrD},
        da \in {AddrA, AddrB, AddrC}, tt \in {0, 1}}

InitId ==
    /\ build \in Builds
    /\ arg \in {<<p, q>> : p \in IdPackets, q \in {FragA0, FragB0, Datagram(1, 0, 0, 1, <<1>>)}
                                              \cup {x \in IdPackets : identification(x) <= 1 /\ ttl(x) = 0}}
    /\ result = <<>>
    /\ SenderIdle
    /\ OptionsIdle
    /\ ReassemblerIdle
    /\ FragmenterIdle
    /\ BuilderIdle

\* arg[1].datagram_id() and arg[2].datagram_id()
DatagramIds ==
    /\ result = <<>>
    /\ result' = <<datagram_id(arg[1]), datagram_id(arg[2])>>
    /\ UNCHANGED <<build, arg, senderVars, optionVars, reassemblerVars, fragmenterVars, builderVars>>

NextId == DatagramIds

SpecId == InitId /\ [][NextId]_vars

\* C19: two packets have the same DatagramId exactly when they have the same
\* identification, protocol, source address and destination address.
C19_DatagramIdInjective ==
    result # <<>> =>
        ((result[1] = result[2]) <=>
            /\ identification(arg[1]) = identification(arg[2])
            /\ protocol(arg[1]) = protocol(arg[2])
            /\ src_addr(arg[1]) = src_addr(arg[2])
            /\ dest_addr(arg[1]) = dest_addr(arg[2]))

\* Two different packets, source and destination not the same address, got
\* one id.
C19_Witness ==
    /\ result # <<>>
    /\ arg[1] # arg[2]
    /\ result[1] = result[2]
    /\ src_addr(arg[1]) # dest_addr(arg[1])

\* C20: the timer removes a context only when at least its timeout has
\* passed since the last insert into it: an expiry closure started for an
\* earlier insert, waiting for the mapping lock while a fragment is inserted,
\* does not remove the context.
C20_NotRemovedBeforeDeadline ==
    [][(timer_callback # <<>> /\ timer_callback' = <<>>) =>
          \A id \in (DOMAIN datagram_map) \ (DOMAIN datagram_map') :
              hist[id].elapsed >= datagram_map[id].reassembly_timer.timeout]_vars

\* The hole set, the stored fragments and total_data_len of a context.
ContextData(ctx) ==
    [holes |-> ctx.holes, fragments |-> ctx.fragments, total_data_len |-> ctx.total_data_len]

\* The call of receive() that made this step handed a fragment to
\* reassemble() that intersects no hole of the context it found under its id.
Redundant(map, buf) ==
    /\ ReachesReassemble(buf)
    /\ datagram_id(buf) \in DOMAIN map
    /\ HolePosition(map[datagram_id(buf)].holes, first(buf), last(buf)) = 0

\* C21: a fragment that intersects no hole of its context is discarded and
\* leaves the context's holes, stored fragments and total_data_len as they
\* were, whether its MF bit is set or clear.
C21_RedundantFragmentChangesNothing ==
    [][(Redundant(datagram_map, received'.pkt) /\ received'.res = "TryAgainLater") =>
          /\ datagram_id(received'.pkt) \in DOMAIN datagram_map'
          /\ ContextData(datagram_map'[datagram_id(received'.pkt)])
                = ContextData(datagram_map[datagram_id(received'.pkt)])]_vars

\* The context reassemble() inserts buf into: the one under its id, or a new
\* one; and that context after the insert.
ContextFor(map, buf) ==
    IF datagram_id(buf) \in DOMAIN map THEN map[datagram_id(buf)] ELSE IncompleteDatagram_default
Inserted(map, buf) == insert(ContextFor(map, buf), buf)

\* C22: whenever an insert of a validated fragment leaves its context without
\* holes, complete() assembles a payload without a gap, of exactly
\* total_data_len bytes, and reassemble() returns a datagram with offset 0,
\* MF clear and a total_len equal to the length of its buffer.
C22_CompleteHasNoGap ==
    [][(ReachesReassemble(received'.pkt) /\ ~InsertPanics(build, received'.pkt)
          /\ Inserted(datagram_map, received'.pkt).holes = <<>>) =>
          /\ received'.res = "Ok"
          /\ offset(received'.out) = 0
          /\ ~more_fragments(received'.out)
          /\ total_len(received'.out) = Len(received'.out)
          /\ Len(payload(received'.out)) = Inserted(datagram_map, received'.pkt).total_data_len]_vars

\* C23: a call of reassemble() returns a datagram only if a fragment with
\* MF=0 has been inserted into the context, by this call or an earlier one;
\* a context that never took one leaves the mapping only when receive()
\* releases it for a whole datagram of its id (or the timer removes it).
C23_NoCompletionWithoutLastFragment ==
    [][LET id == datagram_id(received'.pkt)
           last_seen == ~more_fragments(received'.pkt) \/ (id \in DOMAIN hist /\ hist[id].last_seen)
       IN  /\ (ReachesReassemble(received'.pkt) /\ received'.res = "Ok") => last_seen
           /\ \A gone \in (DOMAIN datagram_map) \ (DOMAIN datagram_map') :
                 gone = id /\ (last_seen \/ ~ReachesReassemble(received'.pkt))]_vars

\* C24: the k-th fragment yielded has IHL 5 and fragment offset equal to the
\* datagram's offset plus an eighth of the payload bytes of the fragments
\* before it; every fragment followed by another has a payload that is a
\* multiple of 8 bytes; identification, ToS, TTL, protocol, source and
\* destination are the datagram's.
C24_FragmentOffsetsAndHeaders ==
    \A k \in 1..Len(yielded) :
        /\ header_len(yielded[k]) = 5
        /\ offset(yielded[k]) =
              offset(iter.buffer) + Len(ConcatPayloads(SubSeq(yielded, 1, k - 1))) \div 8
        /\ k < Len(yielded) => Len(payload(yielded[k])) % 8 = 0
        /\ identification(yielded[k]) = identification(iter.buffer)
        /\ tos(yielded[k]) = tos(iter.buffer)
        /\ ttl(yielded[k]) = ttl(iter.buffer)
        /\ protocol(yielded[k]) = protocol(iter.buffer)
        /\ src_addr(yielded[k]) = src_addr(iter.buffer)
        /\ dest_addr(yielded[k]) = dest_addr(iter.buffer)

\* C25: once a call of next() has returned None, at an End option or at the
\* end of the area, every later call returns None: no option located after
\* an End byte is yielded; and an option that is yielded is never an End
\* option.
C25_NoOptionAfterEnd ==
    [][/\ option_last.res = "None" => option_last'.res = "None"
       /\ option_last'.res = "Ok" =>
             OptionKind(option_iter.buffer[option_iter.cursor + 1]) # "End"]_vars

\* Whether the fragments are in non-decreasing order of first octet.
InFirstOctetOrder(frags) ==
    \A i \in 1..(Len(frags) - 1) : first(frags[i]) <= first(frags[i + 1])

\* C26: after every insert the context's stored fragments are in
\* non-decreasing order of first octet, and the fragment is added to them
\* only if it intersected a hole of the context as it was before the insert;
\* a context that stays in the mapping holds exactly that list.
C26_FragmentsSortedAndFilled ==
    [][(ReachesReassemble(received'.pkt) /\ ~InsertPanics(build, received'.pkt)) =>
          LET before == ContextFor(datagram_map, received'.pkt)
              after == Inserted(datagram_map, received'.pkt)
              id == datagram_id(received'.pkt)
          IN  /\ InFirstOctetOrder(after.fragments)
              /\ after.fragments # before.fragments =>
                    HolePosition(before.holes, first(received'.pkt), last(received'.pkt)) # 0
              /\ id \in DOMAIN datagram_map' =>
                    datagram_map'[id].fragments = after.fragments]_vars

\* A fragment has been stored in front of one that arrived before it, and
\* the context is still being reassembled.
C26_Witness ==
    /\ received.res = "TryAgainLater"
    /\ datagram_id(received.pkt) \in DOMAIN datagram_map
    /\ Len(datagram_map[datagram_id(received.pkt)].fragments) >= 2
    /\ datagram_map[datagram_id(received.pkt)].fragments[1] = received.pkt

(***************************************************************************)
(* SpecSetters: set_flags or set_offset called once on a header.           *)
(***************************************************************************)
\* Headers of 20 bytes with every kind of byte 6 and byte 7, the other bytes
\* all ones or all different.
SetterHeaders ==
    {[i \in 1..20 |-> IF i = 7 THEN b6 ELSE IF i = 8 THEN b7 ELSE IF ones THEN 255 ELSE 10 * i] :
        b6 \in {0, 31, 32, 90, 165, 224, 255}, b7 \in {0, 90, 255}, ones \in BOOLEAN}

\* Arguments of set_flags (u8): the eight flag values and values above 7
FlagArgs == 0..8 \cup {31, 224, 255}

\* Arguments of set_offset (u16): offsets of 13 bits and values above 8191
OffsetArgs == {0, 1, 255, 256, 4660, 8191, 8192, 8193, 40960, 57344, 65535}

InitSetters ==
    /\ build \in Builds
    /\ arg \in {[buf |-> h, setter |-> "set_flags", value |-> v] : h \in SetterHeaders, v \in FlagArgs}
          \cup {[buf |-> h, setter |-> "set_offset", value |-> v] : h \in SetterHeaders, v \in OffsetArgs}
    /\ result = <<>>
    /\ SenderIdle
    /\ OptionsIdle
    /\ ReassemblerIdle
    /\ FragmenterIdle
    /\ BuilderIdle

\* packet.set_flags(value) or packet.set_offset(value)
CallSetter ==
    /\ result = <<>>
    /\ result' = <<IF arg.setter = "set_flags" THEN set_flags(arg.buf, arg.value)
                   ELSE set_offset(arg.buf, arg.value)>>
    /\ UNCHANGED <<build, arg, senderVars, optionVars, reassemblerVars, fragmenterVars, builderVars>>

NextSetters == CallSetter

SpecSetters == InitSetters /\ [][NextSetters]_vars

\* C27: set_flags writes the low 3 bits of its argument into the top 3 bits
\* of byte 6 and changes nothing else, so the offset reads as before;
\* set_offset writes the low 13 bits of its argument into the low 13 bits of
\* bytes 6..7 and changes nothing else, so the flags read as before.
C27_FlagsAndOffsetAreSeparate ==
    result # <<>> =>
        IF arg.setter = "set_flags"
        THEN /\ flags(result[1]) = arg.value % 8
             /\ offset(result[1]) = offset(arg.buf)
             /\ Len(result[1]) = Len(arg.buf)
             /\ \A i \in 1..Len(arg.buf) : i # 7 => result[1][i] = arg.buf[i]
        ELSE /\ offset(result[1]) = arg.value % 8192
             /\ flags(result[1]) = flags(arg.buf)
             /\ Len(result[1]) = Len(arg.buf)
             /\ \A i \in 1..Len(arg.buf) : i \notin {7, 8} => result[1][i] = arg.buf[i]

\* set_offset has been called with an offset of more than 13 bits on a header
\* whose flags are not all clear, and set_flags with a value above 7 on a
\* header whose offset is not 0.
C27_Witness ==
    /\ result # <<>>
    /\ \/ arg.setter = "set_offset" /\ arg.value > 8191 /\ flags(arg.buf) = 5
       \/ arg.setter = "set_flags" /\ arg.value > 7 /\ offset(arg.buf) = 8191

(***************************************************************************)
(* tcp/packet.rs: the accessors and setters of the TCP header's data       *)
(* offset, reserved bits and control bits.  Bytes 12 and 13 of the source  *)
(* are elements 13 and 14 here.                                            *)
(***************************************************************************)
tcp_data_offset(buf) == Shr(buf[13], 4)
tcp_reserved(buf) == BitOr(Shl8(BitAnd(buf[13], 15), 2), Shr(buf[14], 6))
tcp_urg(buf) == Shr(BitAnd(buf[14], 32), 5) = 1
tcp_ack(buf) == Shr(BitAnd(buf[14], 16), 4) = 1
tcp_psh(buf) == Shr(BitAnd(buf[14], 8), 3) = 1
tcp_rst(buf) == Shr(BitAnd(buf[14], 4), 2) = 1
tcp_syn(buf) == Shr(BitAnd(buf[14], 2), 1) = 1
tcp_fin(buf) == BitAnd(buf[14], 1) = 1

\* if flag { 1 } else { 0 }
Bit(flag) == IF flag THEN 1 ELSE 0

tcp_set_data_offset(buf, data_offset) ==
    [buf EXCEPT ![13] = BitOr(BitAnd(buf[13], 15), Shl8(data_offset, 4))]
tcp_set_reserved(buf, reserved) ==
    [buf EXCEPT ![13] = BitOr(BitAnd(buf[13], 240), Shr(reserved, 2)),
                ![14] = BitOr(BitAnd(buf[14], 63), Shl8(reserved, 6))]
tcp_set_urg(buf, urg) == [buf EXCEPT ![14] = BitOr(BitAnd(buf[14], 223), Shl8(Bit(urg), 5))]
tcp_set_ack(buf, ack) == [buf EXCEPT ![14] = BitOr(BitAnd(buf[14], 239), Shl8(Bit(ack), 4))]
tcp_set_psh(buf, psh) == [buf EXCEPT ![14] = BitOr(BitAnd(buf[14], 247), Shl8(Bit(psh), 3))]
tcp_set_rst(buf, rst) == [buf EXCEPT ![14] = BitOr(BitAnd(buf[14], 251), Shl8(Bit(rst), 2))]
tcp_set_syn(buf, syn) == [buf EXCEPT ![14] = BitOr(BitAnd(buf[14], 253), Shl8(Bit(syn), 1))]
tcp_set_fin(buf, fin) == [buf EXCEPT ![14] = BitOr(BitAnd(buf[14], 254), Bit(fin))]

\* The setter named, called with the argument; a bool argument is written 1
\* for true and 0 for false.
TcpSet(setter, buf, value) ==
    CASE setter = "data_offset" -> tcp_set_data_offset(buf, value)
      [] setter = "reserved" -> tcp_set_reserved(buf, value)
      [] setter = "urg" -> tcp_set_urg(buf, value = 1)
      [] setter = "ack" -> tcp_set_ack(buf, value = 1)
      [] setter = "psh" -> tcp_set_psh(buf, value = 1)
      [] setter = "rst" -> tcp_set_rst(buf, value = 1)
      [] setter = "syn" -> tcp_set_syn(buf, value = 1)
      [] setter = "fin" -> tcp_set_fin(buf, value = 1)

\* What the accessors of the header read: the bit fields by name, and under
\* "bytes" the ports, numbers, window, checksum and urgent pointer, which are
\* the bytes 0..11 and 14..19 as they stand.
TcpFields(buf) ==
    [data_offset |-> tcp_data_offset(buf), reserved |-> tcp_reserved(buf),
     urg |-> tcp_urg(buf), ack |-> tcp_ack(buf), psh |-> tcp_psh(buf),
     rst |-> tcp_rst(buf), syn |-> tcp_syn(buf), fin |-> tcp_fin(buf),
     bytes |-> [i \in (1..Len(buf)) \ {13, 14} |-> buf[i]]]

(***************************************************************************)
(* SpecTcp: one setter of the TCP header called once.                      *)
(***************************************************************************)
\* Headers of 20 bytes with every kind of byte 12 and byte 13.
TcpHeaders ==
    {[i \in 1..20 |-> IF i = 13 THEN b12 ELSE IF i = 14 THEN b13 ELSE 10 * i] :
        b12 \in {0, 15, 80, 165, 240, 255}, b13 \in {0, 21, 42, 63, 192, 255}}

\* Arguments of the setters that take a u8: values of the field's width and
\* values above it.
TcpByteArgs == {0, 5, 15, 16, 21, 42, 63, 64, 128, 255}

TcpCalls ==
    {[buf |-> h, setter |-> s, value |-> v] :
        h \in TcpHeaders, s \in {"data_offset", "reserved"}, v \in TcpByteArgs}
    \cup {[buf |-> h, setter |-> s, value |-> v] :
        h \in TcpHeaders, s \in {"urg", "ack", "psh", "rst", "syn", "fin"}, v \in {0, 1}}

InitTcp ==
    /\ build \in Builds
    /\ arg \in TcpCalls
    /\ result = <<>>
    /\ SenderIdle
    /\ OptionsIdle
    /\ ReassemblerIdle
    /\ FragmenterIdle
    /\ BuilderIdle

\* packet.set_<field>(value)
CallTcpSetter ==
    /\ result = <<>>
    /\ result' = <<TcpSet(arg.setter, arg.buf, arg.value)>>
    /\ UNCHANGED <<build, arg, senderVars, optionVars, reassemblerVars, fragmenterVars, builderVars>>

NextTcp == CallTcpSetter

SpecTcp == InitTcp /\ [][NextTcp]_vars

\* C28: after set_data_offset, set_reserved or one of set_urg, set_ack,
\* set_psh, set_rst, set_syn, set_fin, with any argument of the parameter's
\* type, every header field but the setter's own reads as it did before.
C28_TcpSetterChangesOwnFieldOnly ==
    result # <<>> =>
        \A field \in (DOMAIN TcpFields(arg.buf)) \ {arg.setter} :
            TcpFields(result[1])[field] = TcpFields(arg.buf)[field]

\* C29: a buffer that new_checked accepts holds its whole header: IHL*4 is at
\* most the buffer's length, so that the slices taken by payload() and
\* options() are within the buffer.
C29_AcceptedHeaderFitsBuffer ==
    result = <<"Ok">> => header_bytes_len(arg) <= Len(arg)

\* C30: a packet that receive() hands to reassemble() has a payload of at
\* least one byte and a last octet offset*8 + payload length - 1 of at most
\* 65535, so that first() and last() stay within 16 bits.
C30_OctetRangeFitsU16 ==
    (received.pkt # <<>> /\ ReachesReassemble(received.pkt)) =>
        /\ Len(payload(received.pkt)) >= 1
        /\ offset(received.pkt) * 8 + Len(payload(received.pkt)) - 1 <= 65535
        /\ ~LastOverflows(received.pkt)

====
